---- MODULE Spec2Model ----
(***************************************************************************)
(* The two surrogate-model pipelines of the repository:                    *)
(*   src/Lorenz_NN.py  (chaotic system, 3 state components, no storage)    *)
(*   src/NN_ODE.py     (population system, 2 state components, with the    *)
(*                      persisted dataset data.npz and model model.h5)     *)
(* Both are straight-line scripts: generate or load the per-trajectory     *)
(* arrays, shuffle and cut the trajectory indices, index / flatten /       *)
(* column-stack, fit or load the model, (NN_ODE only) score it, and roll   *)
(* it out from X_test[0].                                                  *)
(*                                                                         *)
(* Numbers are symbolic.  The value that odeint returns for component c of *)
(* trajectory i at time index k is the tag <<i, k, c>>; all tags are       *)
(* distinct, so every slicing, indexing, flattening and stacking step can  *)
(* be followed value by value.  A value produced by the network is         *)
(* <<0, j, c>>, j = 0 standing for a non-finite number.                    *)
(* Python indices are 0-based, the sequences here are 1-based: Python's    *)
(* a[k] is a[k+1] here.                                                    *)
(***************************************************************************)
EXTENDS Integers, Sequences, FiniteSets, TLC

\* Number of trajectories the generation loop produces (range(100) in the
\* source), scaled down so that every outcome of the shuffle is enumerated.
NTraj == 4

\* Number of points of the time grid t (np.linspace(..., 1000 / 10000) in the
\* source), scaled down.
NTime == 3

\* Number of distinct finite outputs the network may produce.
NOut == 1

\* The literals of the source, used by the shape-level specification.
RangeTraj == 100
LinspaceODE == 1000
LinspaceLorenz == 10000

VARIABLES
    pipeline,       \* "lorenz" (Lorenz_NN.py) or "ode" (NN_ODE.py)
    pc,             \* position of the script
    dataFile,       \* data.npz: <<>> when absent, <<dataset>> when present
    modelFile,      \* model.h5: <<>> when absent, <<model>> when present
    dataset,        \* the per-component, per-trajectory input / output arrays
    indices,        \* the shuffled np.arange(num_samples)
    train_indices,
    test_indices,
    X_train, y_train, X_test, y_test,
    model,          \* <<>> before the model step, <<[fitOn |-> rows]>> after
    weights,        \* the network's input -> output map, sampled on demand
    scored,         \* rows handed to the evaluation (NN_ODE.py 158-161)
    last,           \* rollout: current state
    predictions,    \* rollout: the list of states
    fed,            \* history: the inputs handed to predict by the rollout
    calls,          \* history: the operations this run has invoked, in order
    dataAtStart,    \* history: data.npz existed when this run started
    modelAtStart,   \* history: model.h5 existed when this run started
    prevCompleted,  \* history: an earlier run on this storage completed
    sh              \* the shape-level state (ShapeSpec only)

vars == <<pipeline, pc, dataFile, modelFile, dataset, indices, train_indices,
          test_indices, X_train, y_train, X_test, y_test, model, weights,
          scored, last, predictions, fed, calls, dataAtStart, modelAtStart,
          prevCompleted, sh>>

runVars == <<dataset, indices, train_indices, test_indices, X_train, y_train,
             X_test, y_test, model, weights, scored, last, predictions, fed>>

Range(s) == {s[j] : j \in 1..Len(s)}

os_path_exists_never(file) == FALSE

\* os.path.exists(data_file) / os.path.exists(model_file)
os_path_exists(file) == Len(file) = 1

np_savez_skip(ds) == <<>>

\* np.savez(data_file, ...): the content of data.npz afterwards.
np_savez(ds) == <<ds>>

\* State dimension: Dense(3) / three component arrays, Dense(2) / two.
Dim(p) == IF p = "lorenz" THEN 3 ELSE 2

(***************************************************************************)
(* Trajectory generation and the pair arrays.                              *)
(***************************************************************************)

\* odeint(f, z0, t): one state per point of t, as a |t| x dim array.
Solution(i, len, dim) == [k \in 1..len |-> [c \in 1..dim |-> <<i, k, c>>]]

SliceLenFull(len) == len

\* Length of solution[:-1, c] and of solution[1:, c].
SliceLen(len) == IF len = 0 THEN 0 ELSE len - 1

\* solution[:-1, c]
InputsCol(sol, c) == [k \in 1..SliceLen(Len(sol)) |-> sol[k][c]]

OutputsColSame(sol, c) == [k \in 1..SliceLen(Len(sol)) |-> sol[k][c]]

\* solution[1:, c]
OutputsCol(sol, c) == [k \in 1..SliceLen(Len(sol)) |-> sol[k + 1][c]]

\* The generation loop followed by np.array: per component, one row per
\* trajectory.  inp[c][i][k] is component c of trajectory i at step k.
GenDataset(n, len, dim) ==
    [inp |-> [c \in 1..dim |-> [i \in 1..n |-> InputsCol(Solution(i, len, dim), c)]],
     out |-> [c \in 1..dim |-> [i \in 1..n |-> OutputsCol(Solution(i, len, dim), c)]]]

NoDataset == [inp |-> <<>>, out |-> <<>>]

\* X_inputs.shape[0] / P_inputs.shape[0]
NumSamples(ds) == Len(ds.inp[1])

(***************************************************************************)
(* The split.                                                              *)
(***************************************************************************)

Perms(n) == {f \in [1..n -> 1..n] : \A a, b \in 1..n : f[a] = f[b] => a = b}

SplitIndexCeil(n) == (8 * n + 9) \div 10

\* int(0.8 * num_samples)
SplitIndex(n) == (8 * n) \div 10

\* indices[:split_index]
TrainSlice(ind, s) == SubSeq(ind, 1, s)

TestSliceOverlap(ind, s) == SubSeq(ind, IF s = 0 THEN 1 ELSE s, Len(ind))

\* indices[split_index:]
TestSlice(ind, s) == SubSeq(ind, s + 1, Len(ind))

(***************************************************************************)
(* Indexing, flattening, stacking.                                         *)
(***************************************************************************)

TakeFirst(a, ind) == [j \in 1..Len(ind) |-> a[j]]

\* a[ind] for an index array ind: row j of the result is row ind[j] of a.
Take(a, ind) == [j \in 1..Len(ind) |-> a[ind[j]]]

RECURSIVE Flatten(_)
\* np.array(a).flatten(): the rows one after the other.
Flatten(a) == IF a = <<>> THEN <<>> ELSE Head(a) \o Flatten(Tail(a))

\* np.column_stack((c1, ..., cd)): row r is (c1[r], ..., cd[r]).
ColumnStack(cols) == [r \in 1..Len(cols[1]) |-> [c \in 1..Len(cols) |-> cols[c][r]]]

\* The table built from the component arrays a (inp or out) and the index
\* array ind: index every component, flatten it, stack the components.
Table(a, ind) == ColumnStack([c \in 1..Len(a) |-> Flatten(Take(a[c], ind))])

(***************************************************************************)
(* The model and the rollout.                                              *)
(***************************************************************************)

\* What the network can return for one input row.
OutStates(dim) == {[c \in 1..dim |-> <<0, j, c>>] : j \in 0..NOut}

IsFinite(state) == ~(state[1][1] = 0 /\ state[1][2] = 0)

\* model.predict(x) for one row x: the network is a function, so an input
\* seen before gets the output it got before; a new input gets any output.
Predict(w, x, dim) == IF x \in DOMAIN w THEN {w[x]} ELSE OutStates(dim)

\* fit(..., validation_split=0.1) trains on the first floor(0.9 * n) rows
\* and keeps the remaining rows for monitoring.
FitCount(n) == (9 * n) \div 10

FitRows(X) == Range(SubSeq(X, 1, FitCount(Len(X))))

LoopGuardFinite(k, state) == k < NTime /\ IsFinite(state)

\* for time in t: the loop body runs once per point of the time grid.
LoopGuard(k, state) == k < NTime

RolloutInputForced(state, k) == X_test[(k % Len(X_test)) + 1]

\* model.predict(last): the input of iteration k is the variable last.
RolloutInput(state, k) == state

\* X_test[0].reshape(1, -1)
SeedRow(X) == X[1]

Log(op) == calls' = Append(calls, op)

Fail == /\ pc' = "error"
        /\ UNCHANGED <<pipeline, dataFile, modelFile, runVars, dataAtStart,
                       modelAtStart, prevCompleted, sh>>

(***************************************************************************)
(* Shape-level state, idle in Spec.                                        *)
(***************************************************************************)

\* Time-grid length of each script: np.linspace(0, 25, 10000) and
\* np.linspace(0, 1000, 1000).
TimePoints(p) == IF p = "lorenz" THEN LinspaceLorenz ELSE LinspaceODE

\* Shape of np.array of n lists, each a slice [:-1] or [1:] of len points.
ShapeGen(n, len) == <<n, SliceLen(len)>>

\* Length of a[:s] and of a[s:] for an array of n elements.
ShapeSliceTo(n, s) == IF s < n THEN s ELSE n

ShapeSliceFrom(n, s) == IF s < n THEN n - s ELSE 0

\* Shape of a[ind] for a 2-d array a and a 1-d index array of count elements.
ShapeTake(shape, count) == <<count, shape[2]>>

\* Length of a.flatten() for a 2-d array a.
ShapeFlatten(shape) == shape[1] * shape[2]

\* Shape of np.column_stack of dim 1-d arrays of length flat.
ShapeStack(flat, dim) == <<flat, dim>>

\* Shape of the table built from a component array of the given shape and
\* count indices.
ShapeTable(shape, count, dim) == ShapeStack(ShapeFlatten(ShapeTake(shape, count)), dim)

ShStart(p, f) ==
    [pc |-> "load_data", pipeline |-> p, file |-> f, byProgram |-> FALSE,
     loaded |-> FALSE, rerun |-> FALSE, data |-> <<0, 0>>, ntrain |-> 0,
     ntest |-> 0, X_train |-> <<0, 0>>, y_train |-> <<0, 0>>,
     X_test |-> <<0, 0>>, y_test |-> <<0, 0>>]

ShIdle == ShStart("none", <<>>)

(***************************************************************************)
(* The initial state: a first run.  Lorenz_NN.py uses no storage.  For     *)
(* NN_ODE.py data.npz is absent or holds a dataset of any number of        *)
(* trajectories; model.h5 is absent (it is only ever written by a run).    *)
(***************************************************************************)

FreshRun ==
    /\ pc = "load_data"
    /\ modelFile = <<>>
    /\ dataset = NoDataset
    /\ indices = <<>>
    /\ train_indices = <<>>
    /\ test_indices = <<>>
    /\ X_train = <<>>
    /\ y_train = <<>>
    /\ X_test = <<>>
    /\ y_test = <<>>
    /\ model = <<>>
    /\ weights = <<>>
    /\ scored = <<>>
    /\ last = <<>>
    /\ predictions = <<>>
    /\ fed = <<>>
    /\ calls = <<>>
    /\ modelAtStart = FALSE
    /\ prevCompleted = FALSE

Init ==
    /\ pipeline \in {"lorenz", "ode"}
    /\ dataFile \in IF pipeline = "ode"
                      THEN {<<>>} \cup {<<GenDataset(n, NTime, 2)>> : n \in 0..NTraj}
                      ELSE {<<>>}
    /\ dataAtStart = (dataFile # <<>>)
    /\ FreshRun
    /\ sh = ShIdle

(***************************************************************************)
(* Dataset: Lorenz_NN.py 40-63, NN_ODE.py 32-67.                           *)
(***************************************************************************)

\* Lorenz_NN.py 40-63: always generates, never stores.
GenerateLorenz ==
    /\ pc = "load_data"
    /\ pipeline = "lorenz"
    /\ dataset' = GenDataset(NTraj, NTime, Dim(pipeline))
    /\ Log("generate")
    /\ pc' = "split"
    /\ UNCHANGED <<pipeline, dataFile, modelFile, indices, train_indices,
                   test_indices, X_train, y_train, X_test, y_test, model,
                   weights, scored, last, predictions, fed, dataAtStart,
                   modelAtStart, prevCompleted, sh>>

\* NN_ODE.py 60-65: os.path.exists(data_file) holds.
LoadData ==
    /\ pc = "load_data"
    /\ pipeline = "ode"
    /\ os_path_exists(dataFile)
    /\ dataset' = dataFile[1]
    /\ Log("np.load")
    /\ pc' = "split"
    /\ UNCHANGED <<pipeline, dataFile, modelFile, indices, train_indices,
                   test_indices, X_train, y_train, X_test, y_test, model,
                   weights, scored, last, predictions, fed, dataAtStart,
                   modelAtStart, prevCompleted, sh>>

\* NN_ODE.py 66-67 and 32-54: generate_data(t), which also writes data.npz.
GenerateData ==
    /\ pc = "load_data"
    /\ pipeline = "ode"
    /\ ~os_path_exists(dataFile)
    /\ dataset' = GenDataset(NTraj, NTime, Dim(pipeline))
    /\ dataFile' = np_savez(dataset')
    /\ calls' = calls \o <<"generate_data", "np.savez">>
    /\ pc' = "split"
    /\ UNCHANGED <<pipeline, modelFile, indices, train_indices,
                   test_indices, X_train, y_train, X_test, y_test, model,
                   weights, scored, last, predictions, fed, dataAtStart,
                   modelAtStart, prevCompleted, sh>>

(***************************************************************************)
(* Split: Lorenz_NN.py 65-77, NN_ODE.py 69-81.                             *)
(***************************************************************************)

ShuffleSplit ==
    /\ pc = "split"
    /\ \E p \in Perms(NumSamples(dataset)) :
          /\ indices' = p
          /\ train_indices' = TrainSlice(p, SplitIndex(NumSamples(dataset)))
          /\ test_indices' = TestSlice(p, SplitIndex(NumSamples(dataset)))
    /\ Log("shuffle")
    /\ pc' = "prepare"
    /\ UNCHANGED <<pipeline, dataFile, modelFile, dataset, X_train, y_train,
                   X_test, y_test, model, weights, scored, last, predictions,
                   fed, dataAtStart, modelAtStart, prevCompleted, sh>>

(***************************************************************************)
(* Index, flatten, stack: Lorenz_NN.py 79-140, NN_ODE.py 83-133.           *)
(***************************************************************************)

PrepareData ==
    /\ pc = "prepare"
    /\ X_train' = Table(dataset.inp, train_indices)
    /\ y_train' = Table(dataset.out, train_indices)
    /\ X_test' = Table(dataset.inp, test_indices)
    /\ y_test' = Table(dataset.out, test_indices)
    /\ Log("stack")
    /\ pc' = "get_model"
    /\ UNCHANGED <<pipeline, dataFile, modelFile, dataset, indices,
                   train_indices, test_indices, model, weights, scored, last,
                   predictions, fed, dataAtStart, modelAtStart, prevCompleted, sh>>

(***************************************************************************)
(* Model: Lorenz_NN.py 145-158, NN_ODE.py 135-155.                         *)
(***************************************************************************)

\* Lorenz_NN.py 146-158: always trains, never stores.  fit raises when the
\* validation split leaves no row to train on.
FitLorenz ==
    /\ pc = "get_model"
    /\ pipeline = "lorenz"
    /\ Log("fit")
    /\ IF FitCount(Len(X_train)) = 0
         THEN Fail
         ELSE /\ model' = <<[fitOn |-> FitRows(X_train)]>>
              /\ weights' = <<>>
              /\ pc' = "seed"
              /\ UNCHANGED <<pipeline, dataFile, modelFile, dataset, indices,
                             train_indices, test_indices, X_train, y_train,
                             X_test, y_test, scored, last, predictions, fed,
                             dataAtStart, modelAtStart, prevCompleted, sh>>

\* NN_ODE.py 136-137: os.path.exists(model_file) holds.
LoadModel ==
    /\ pc = "get_model"
    /\ pipeline = "ode"
    /\ os_path_exists(modelFile)
    /\ model' = modelFile
    /\ weights' = <<>>
    /\ Log("load_model")
    /\ pc' = "evaluate"
    /\ UNCHANGED <<pipeline, dataFile, modelFile, dataset, indices,
                   train_indices, test_indices, X_train, y_train, X_test,
                   y_test, scored, last, predictions, fed, dataAtStart,
                   modelAtStart, prevCompleted, sh>>

\* NN_ODE.py 138-155: define, compile, fit, save.
TrainModel ==
    /\ pc = "get_model"
    /\ pipeline = "ode"
    /\ ~os_path_exists(modelFile)
    /\ IF FitCount(Len(X_train)) = 0
         THEN /\ Log("fit")
              /\ Fail
         ELSE /\ model' = <<[fitOn |-> FitRows(X_train)]>>
              /\ weights' = <<>>
              /\ modelFile' = model'
              /\ calls' = calls \o <<"fit", "model.save">>
              /\ pc' = "evaluate"
              /\ UNCHANGED <<pipeline, dataFile, dataset, indices,
                             train_indices, test_indices, X_train, y_train,
                             X_test, y_test, scored, last, predictions, fed,
                             dataAtStart, modelAtStart, prevCompleted, sh>>

(***************************************************************************)
(* Evaluation: NN_ODE.py 157-165.  The metrics are printed and nothing     *)
(* reads them; what is kept is which rows were scored.  The metrics raise  *)
(* on an empty table.                                                      *)
(***************************************************************************)

Evaluate ==
    /\ pc = "evaluate"
    /\ Log("score")
    /\ IF X_test = <<>>
         THEN Fail
         ELSE /\ scored' = X_test
              /\ pc' = "seed"
              /\ UNCHANGED <<pipeline, dataFile, modelFile, dataset, indices,
                             train_indices, test_indices, X_train, y_train,
                             X_test, y_test, model, weights, last,
                             predictions, fed, dataAtStart, modelAtStart,
                             prevCompleted, sh>>

(***************************************************************************)
(* Rollout: Lorenz_NN.py 160-171, NN_ODE.py 167-178.                       *)
(***************************************************************************)

\* initial_conditions_test = X_test[0]...; last = ...; predictions = [last]
SeedRollout ==
    /\ pc = "seed"
    /\ Log("seed")
    /\ IF X_test = <<>>
         THEN Fail
         ELSE /\ last' = SeedRow(X_test)
              /\ predictions' = <<SeedRow(X_test)>>
              /\ pc' = "rollout"
              /\ UNCHANGED <<pipeline, dataFile, modelFile, dataset, indices,
                             train_indices, test_indices, X_train, y_train,
                             X_test, y_test, model, weights, scored, fed,
                             dataAtStart, modelAtStart, prevCompleted, sh>>

\* One iteration of the loop: last = model.predict(last); append.
RolloutStep ==
    /\ pc = "rollout"
    /\ LoopGuard(Len(fed), last)
    /\ LET x == RolloutInput(last, Len(fed)) IN
         \E out \in Predict(weights, x, Dim(pipeline)) :
            /\ weights' = (x :> out) @@ weights
            /\ fed' = Append(fed, x)
            /\ last' = out
            /\ predictions' = Append(predictions, out)
    /\ UNCHANGED <<pipeline, pc, dataFile, modelFile, dataset, indices,
                   train_indices, test_indices, X_train, y_train, X_test,
                   y_test, model, scored, calls, dataAtStart, modelAtStart,
                   prevCompleted, sh>>

\* The loop is exhausted: predictions = np.array(predictions).reshape(...)
RolloutEnd ==
    /\ pc = "rollout"
    /\ ~LoopGuard(Len(fed), last)
    /\ pc' = "done"
    /\ UNCHANGED <<pipeline, dataFile, modelFile, runVars, calls, dataAtStart,
                   modelAtStart, prevCompleted, sh>>

(***************************************************************************)
(* The script is run again on the same storage.                            *)
(***************************************************************************)

NewRun ==
    /\ pc \in {"done", "error"}
    /\ pc' = "load_data"
    /\ dataset' = NoDataset
    /\ indices' = <<>>
    /\ train_indices' = <<>>
    /\ test_indices' = <<>>
    /\ X_train' = <<>>
    /\ y_train' = <<>>
    /\ X_test' = <<>>
    /\ y_test' = <<>>
    /\ model' = <<>>
    /\ weights' = <<>>
    /\ scored' = <<>>
    /\ last' = <<>>
    /\ predictions' = <<>>
    /\ fed' = <<>>
    /\ calls' = <<>>
    /\ dataAtStart' = (dataFile # <<>>)
    /\ modelAtStart' = (modelFile # <<>>)
    /\ prevCompleted' = (prevCompleted \/ pc = "done")
    /\ UNCHANGED <<pipeline, dataFile, modelFile, sh>>

Next ==
    \/ GenerateLorenz
    \/ LoadData
    \/ GenerateData
    \/ ShuffleSplit
    \/ PrepareData
    \/ FitLorenz
    \/ LoadModel
    \/ TrainModel
    \/ Evaluate
    \/ SeedRollout
    \/ RolloutStep
    \/ RolloutEnd
    \/ NewRun

Spec == Init /\ [][Next]_vars

(***************************************************************************)
(* The shape-level specification: the same scripts up to the stacked       *)
(* tables, with the source's own sizes (100 trajectories, 10000 / 1000     *)
(* time points), following the shapes of the arrays instead of their       *)
(* contents.  data.npz is absent or holds 0..100 trajectories of 999       *)
(* pairs.                                                                  *)
(***************************************************************************)

mainVars == <<pipeline, pc, dataFile, modelFile, runVars, calls, dataAtStart,
              modelAtStart, prevCompleted>>

ShInit ==
    /\ pipeline = "none"
    /\ dataFile = <<>>
    /\ dataAtStart = FALSE
    /\ FreshRun
    /\ sh \in {ShStart("lorenz", <<>>)} \cup
              {ShStart("ode", f) :
                  f \in {<<>>} \cup {<<ShapeGen(n, LinspaceODE)>> : n \in 0..RangeTraj}}

\* Lorenz_NN.py 29-63
ShGenerateLorenz ==
    /\ sh.pc = "load_data"
    /\ sh.pipeline = "lorenz"
    /\ sh' = [sh EXCEPT !.pc = "split",
                        !.data = ShapeGen(RangeTraj, TimePoints(sh.pipeline)),
                        !.byProgram = TRUE]
    /\ UNCHANGED mainVars

\* NN_ODE.py 60-65
ShLoad ==
    /\ sh.pc = "load_data"
    /\ sh.pipeline = "ode"
    /\ os_path_exists(sh.file)
    /\ sh' = [sh EXCEPT !.pc = "split", !.data = sh.file[1], !.loaded = TRUE]
    /\ UNCHANGED mainVars

\* NN_ODE.py 32-57, 66-67
ShGenerate ==
    /\ sh.pc = "load_data"
    /\ sh.pipeline = "ode"
    /\ ~os_path_exists(sh.file)
    /\ sh' = [sh EXCEPT !.pc = "split",
                        !.data = ShapeGen(RangeTraj, TimePoints(sh.pipeline)),
                        !.file = np_savez(ShapeGen(RangeTraj, TimePoints(sh.pipeline))),
                        !.byProgram = TRUE]
    /\ UNCHANGED mainVars

\* Lorenz_NN.py 65-77, NN_ODE.py 69-81
ShSplit ==
    /\ sh.pc = "split"
    /\ sh' = [sh EXCEPT !.pc = "prepare",
                        !.ntrain = ShapeSliceTo(sh.data[1], SplitIndex(sh.data[1])),
                        !.ntest = ShapeSliceFrom(sh.data[1], SplitIndex(sh.data[1]))]
    /\ UNCHANGED mainVars

\* Lorenz_NN.py 79-140, NN_ODE.py 83-133
ShStack ==
    /\ sh.pc = "prepare"
    /\ sh' = [sh EXCEPT !.pc = "stacked",
                        !.X_train = ShapeTable(sh.data, sh.ntrain, Dim(sh.pipeline)),
                        !.y_train = ShapeTable(sh.data, sh.ntrain, Dim(sh.pipeline)),
                        !.X_test = ShapeTable(sh.data, sh.ntest, Dim(sh.pipeline)),
                        !.y_test = ShapeTable(sh.data, sh.ntest, Dim(sh.pipeline))]
    /\ UNCHANGED mainVars

\* The script is run again on the same storage.
ShNewRun ==
    /\ sh.pc = "stacked"
    /\ ~sh.rerun
    /\ sh' = [ShStart(sh.pipeline, sh.file) EXCEPT !.byProgram = sh.byProgram /\ sh.pipeline = "ode",
                                                  !.rerun = TRUE]
    /\ UNCHANGED mainVars

ShNext ==
    \/ ShGenerateLorenz
    \/ ShLoad
    \/ ShGenerate
    \/ ShSplit
    \/ ShStack
    \/ ShNewRun

ShapeSpec == ShInit /\ [][ShNext]_vars

(***************************************************************************)
(* Properties.                                                             *)
(***************************************************************************)

SplitDone == pc \notin {"load_data", "split"}

TablesBuilt == pc \notin {"load_data", "split", "prepare"}

\* The trajectory a table row was taken from, by each of its components.
TrajsOf(row) == {row[c][1] : c \in 1..Len(row)}

\* The state of trajectory i at time index k, as odeint returned it.
TrueState(i, k) == Solution(i, NTime, Dim(pipeline))[k]

\* C1: once the shuffled indices are cut at int(0.8 * N), the Train and Test
\* index sets are disjoint, together they are exactly the N indices (each
\* once), and the Test size differs from 0.2 * N by less than one, i.e.
\* |5 * test - N| < 5.
C1_SplitPartitions ==
    SplitDone =>
        LET n == NumSamples(dataset)
            tr == Range(train_indices)
            te == Range(test_indices)
        IN /\ tr \cap te = {}
           /\ tr \cup te = 1..n
           /\ Cardinality(tr) = Len(train_indices)
           /\ Cardinality(te) = Len(test_indices)
           /\ Len(train_indices) + Len(test_indices) = n
           /\ 5 * Len(test_indices) - n < 5
           /\ n - 5 * Len(test_indices) < 5

C1_Witness ==
    /\ pc = "prepare"
    /\ NumSamples(dataset) = NTraj
    /\ Len(test_indices) > 0
    /\ Len(train_indices) > 1

\* C2: every row of X_test / y_test comes from a trajectory of the Test set
\* and none from a trajectory of the Train set, and symmetrically for
\* X_train / y_train.
C2_NoRowCrossesTheSplit ==
    TablesBuilt =>
        /\ \A r \in 1..Len(X_test) :
              /\ TrajsOf(X_test[r]) \cup TrajsOf(y_test[r]) \subseteq Range(test_indices)
              /\ (TrajsOf(X_test[r]) \cup TrajsOf(y_test[r])) \cap Range(train_indices) = {}
        /\ \A r \in 1..Len(X_train) :
              /\ TrajsOf(X_train[r]) \cup TrajsOf(y_train[r]) \subseteq Range(train_indices)
              /\ (TrajsOf(X_train[r]) \cup TrajsOf(y_train[r])) \cap Range(test_indices) = {}
        /\ Len(y_test) = Len(X_test)
        /\ Len(y_train) = Len(X_train)

C2_Witness ==
    /\ pc = "get_model"
    /\ Len(X_test) > 0
    /\ Len(X_train) > 0
    /\ test_indices[1] < train_indices[1]

\* C3: a trajectory of L points gives exactly L - 1 pairs, pair k being
\* (state k, state k + 1) of that trajectory in every component; and row
\* (j - 1) * (L - 1) + k of a stacked table pairs state k of the j-th
\* selected trajectory (X) with its state k + 1 (y), all components aligned.
C3_PairsAreAdjacentStates ==
    /\ pc # "load_data" =>
          \A c \in 1..Dim(pipeline) : \A i \in 1..NumSamples(dataset) :
              /\ Len(dataset.inp[c][i]) = NTime - 1
              /\ Len(dataset.out[c][i]) = NTime - 1
              /\ \A k \in 1..(NTime - 1) :
                    /\ dataset.inp[c][i][k] = TrueState(i, k)[c]
                    /\ dataset.out[c][i][k] = TrueState(i, k + 1)[c]
    /\ TablesBuilt =>
          /\ Len(X_train) = Len(train_indices) * (NTime - 1)
          /\ Len(y_train) = Len(train_indices) * (NTime - 1)
          /\ Len(X_test) = Len(test_indices) * (NTime - 1)
          /\ Len(y_test) = Len(test_indices) * (NTime - 1)
          /\ \A j \in 1..Len(train_indices) : \A k \in 1..(NTime - 1) :
                /\ X_train[(j - 1) * (NTime - 1) + k] = TrueState(train_indices[j], k)
                /\ y_train[(j - 1) * (NTime - 1) + k] = TrueState(train_indices[j], k + 1)
          /\ \A j \in 1..Len(test_indices) : \A k \in 1..(NTime - 1) :
                /\ X_test[(j - 1) * (NTime - 1) + k] = TrueState(test_indices[j], k)
                /\ y_test[(j - 1) * (NTime - 1) + k] = TrueState(test_indices[j], k + 1)

C3_Witness ==
    /\ pc = "get_model"
    /\ pipeline = "lorenz"
    /\ Len(X_train) = SplitIndex(NTraj) * (NTime - 1)
    /\ Len(y_test) >= NTime - 1

\* C4: whatever the network returns, non-finite values included, the loop
\* runs one predict call per point of the time grid and cannot end before:
\* while it runs the list holds the seed followed by one state per call, and
\* when it has ended there were exactly |t| calls and the list has |t| + 1
\* states, the first being the seed X_test[0].
C4_RolloutRunsFullLength ==
    /\ pc = "rollout" =>
          /\ Len(fed) <= NTime
          /\ Len(predictions) = Len(fed) + 1
          /\ predictions[1] = X_test[1]
          /\ Len(fed) < NTime => (ENABLED RolloutStep /\ ~ENABLED RolloutEnd)
    /\ pc = "done" =>
          /\ Len(fed) = NTime
          /\ Len(predictions) = NTime + 1
          /\ predictions[1] = X_test[1]

C4_Witness ==
    /\ pc = "done"
    /\ Len(predictions) = NTime + 1
    /\ ~IsFinite(predictions[2])

\* C9: the seed is the step-0 state of the first Test trajectory, the input
\* of call k is element k of the rollout and element k + 1 is the network's
\* output for it; after the seed no ground-truth state is fed.
C9_RolloutIsOpenLoop ==
    pc \in {"rollout", "done"} =>
        /\ predictions[1] = TrueState(test_indices[1], 1)
        /\ \A k \in 1..Len(fed) :
              /\ fed[k] = predictions[k]
              /\ fed[k] \in DOMAIN weights
              /\ predictions[k + 1] = weights[fed[k]]
        /\ \A k \in 2..Len(fed) : fed[k] \in OutStates(Dim(pipeline))
        /\ last = predictions[Len(predictions)]

C9_Witness ==
    /\ pc = "done"
    /\ IsFinite(predictions[2])
    /\ predictions[3] # predictions[2]
    /\ fed[3] = predictions[3]

Called(op) == op \in Range(calls)

\* C5: in NN_ODE.py a run that found data.npz at its start never generates
\* nor writes the dataset and uses the stored one; a run that found model.h5
\* never fits nor saves and uses the stored model.
C5_CacheHitSkipsWork ==
    pipeline = "ode" =>
        /\ dataAtStart =>
              /\ ~Called("generate_data")
              /\ ~Called("np.savez")
              /\ pc # "load_data" => (Called("np.load") /\ dataFile = <<dataset>>)
        /\ modelAtStart =>
              /\ ~Called("fit")
              /\ ~Called("model.save")
              /\ model # <<>> => (Called("load_model") /\ model = modelFile)

C5_Witness ==
    /\ pipeline = "ode"
    /\ pc = "done"
    /\ dataAtStart
    /\ modelAtStart
    /\ Called("np.load")
    /\ Called("load_model")

\* C6: in NN_ODE.py a run that starts without data.npz generates and writes
\* it, a run that starts without model.h5 fits a model and writes it; a
\* missing file never makes the run fail (a run only fails on a stored
\* dataset of fewer than two trajectories); a completed run leaves both
\* files, and every run after a completed one finds both and skips
\* generation and training.
C6_MissingArtifactIsRebuilt ==
    pipeline = "ode" =>
        /\ (pc # "load_data" /\ ~dataAtStart) =>
              /\ Called("generate_data")
              /\ Called("np.savez")
              /\ dataFile = <<dataset>>
              /\ NumSamples(dataset) = NTraj
        /\ (pc \in {"evaluate", "seed", "rollout", "done"} /\ ~modelAtStart) =>
              /\ Called("fit")
              /\ Called("model.save")
              /\ model # <<>>
              /\ modelFile = model
        /\ pc = "error" => (dataAtStart /\ NumSamples(dataset) < 2)
        /\ pc = "done" => (dataFile # <<>> /\ modelFile # <<>>)
        /\ prevCompleted =>
              /\ dataAtStart
              /\ modelAtStart
              /\ ~Called("generate_data")
              /\ ~Called("fit")

C6_Witness ==
    /\ pipeline = "ode"
    /\ pc = "done"
    /\ ~dataAtStart
    /\ ~modelAtStart
    /\ dataFile # <<>>
    /\ modelFile # <<>>

\* C7: with the source's 100 trajectories the stacked tables have
\* 80 * (L - 1) Train rows and 20 * (L - 1) Test rows: 799920 and 199980
\* for Lorenz_NN.py (L = 10000), 79920 and 19980 for NN_ODE.py (L = 1000),
\* also when the dataset is the one an earlier run generated and stored.
C7_TableSizes ==
    sh.pc = "stacked" =>
        /\ sh.byProgram => sh.data[1] = RangeTraj
        /\ sh.data[1] = RangeTraj =>
              /\ sh.ntrain = 80
              /\ sh.ntest = 20
              /\ sh.X_train[1] = 80 * (TimePoints(sh.pipeline) - 1)
              /\ sh.X_test[1] = 20 * (TimePoints(sh.pipeline) - 1)
              /\ sh.pipeline = "lorenz" =>
                    /\ sh.X_train = <<799920, 3>>
                    /\ sh.y_train = <<799920, 3>>
                    /\ sh.X_test = <<199980, 3>>
                    /\ sh.y_test = <<199980, 3>>
              /\ sh.pipeline = "ode" =>
                    /\ sh.X_train = <<79920, 2>>
                    /\ sh.y_train = <<79920, 2>>
                    /\ sh.X_test = <<19980, 2>>
                    /\ sh.y_test = <<19980, 2>>

C7_Witness ==
    /\ sh.pc = "stacked"
    /\ sh.pipeline = "ode"
    /\ sh.byProgram
    /\ sh.rerun
    /\ sh.loaded
    /\ sh.X_test = <<19980, 2>>

\* C8 as stated: whenever N * (1 - 0.8) < 1, i.e. N < 5, the cut leaves the
\* Test set empty and the run does not fail.
C8_SmallNEmptiesTest ==
    (SplitDone /\ NumSamples(dataset) < 5) =>
        /\ test_indices = <<>>
        /\ pc # "error"

\* C8 as amended: whenever N * (1 - 0.8) < 1, the cut at int(0.8 * N)
\* leaves the Test set empty only for N = 0; for 1 <= N <= 4 the Test set
\* holds exactly one trajectory and the Train set the other N - 1.  A run
\* whose Test set is empty does not get to the rollout: it fails.
C8_SmallNLeavesOneTest ==
    /\ (SplitDone /\ NumSamples(dataset) < 5) =>
          /\ NumSamples(dataset) = 0 => test_indices = <<>>
          /\ NumSamples(dataset) >= 1 =>
                /\ Len(test_indices) = 1
                /\ Len(train_indices) = NumSamples(dataset) - 1
    /\ (SplitDone /\ test_indices = <<>>) =>
          /\ NumSamples(dataset) = 0
          /\ pc \in {"prepare", "get_model", "evaluate", "seed", "error"}

C8_Witness ==
    /\ pc = "rollout"
    /\ NumSamples(dataset) = 3
    /\ Len(test_indices) = 1
    /\ Len(train_indices) = 2

\* C10: the model that a run of NN_ODE.py scores on its Test rows was not
\* trained on any row of a trajectory that is in that run's Test set.
C10_ScoredModelNeverSawTestTrajectories ==
    (pipeline = "ode" /\ scored # <<>>) =>
        \A r \in 1..Len(scored) : \A x \in model[1].fitOn :
            TrajsOf(x) \cap TrajsOf(scored[r]) = {}

====
